---- MODULE Spec2Model ----
(***************************************************************************)
(* A model of the kinematic-tree aggregate of phobos: XMLRobot             *)
(* (phobos/io/xmlrobot.py) and the entity classes it registers             *)
(* (phobos/io/representation.py).                                          *)
(*                                                                         *)
(* Python objects are modelled by records.  A Link object is a record      *)
(* [name, oid] and a Joint object a record of its attributes; two records  *)
(* are the same object iff they are equal, which is what Python's          *)
(* `elem not in self.links` tests for classes without __eq__.  Python      *)
(* dicts are sequences of <<key, value>> pairs with pairwise distinct      *)
(* keys, kept in insertion order, as CPython iterates them.               *)
(***************************************************************************)
EXTENDS Integers, Sequences, FiniteSets, TLC

(***************************************************************************)
(* Bounds of the model.                                                    *)
(***************************************************************************)
MaxLinks == 3        \* entries of XMLRobot.links
MaxJointAdds == 2    \* add_aggregate("joint", ...) calls
MaxObjs == 3         \* Material objects constructed
MaxGeneric == 3      \* add_aggregate calls of a generic kind
MaxGeo == 2          \* Visuals (and Collisions) handed to Link.__init__

(***************************************************************************)
(* Inputs.                                                                 *)
(***************************************************************************)
LinkNames == {"base", "arm", "hand"}
JointNames == {"j1", "j2"}
\* In a joint origin rpy is counted in quarter turns (multiples of pi/2), so
\* that every rotation matrix has integer entries.
\* The Link objects handed to add_aggregate: one per name, and a second,
\* distinct object named "base".
UniqueLinks == { [name |-> n, oid |-> 1] : n \in LinkNames }
LinkObjs == UniqueLinks \cup { [name |-> "base", oid |-> 2] }
\* The Joint objects handed to add_aggregate: a joint named "j1" between any
\* two different links, and a joint named "j2" from "base" to "arm" and from
\* "arm" to "hand".  Joints named "j1" have the origin xyz=[1,0,0],
\* rpy=[0,0,0], joints named "j2" the origin xyz=[0,1,0] and a quarter turn
\* of yaw.  A joint named "j1" is revolute and one named "j2" fixed, except
\* for the joints whose parent is "arm", where it is the other way round: two
\* joints of one name may differ in their type.
JointKind(n) ==
    IF n = "j1"
    THEN [joint_type |-> "revolute", origin |-> [xyz |-> <<1, 0, 0>>, rpy |-> <<0, 0, 0>>]]
    ELSE [joint_type |-> "fixed", origin |-> [xyz |-> <<0, 1, 0>>, rpy |-> <<0, 0, 1>>]]
JointType(n, p) ==
    IF p # "arm" THEN JointKind(n).joint_type
    ELSE IF JointKind(n).joint_type = "fixed" THEN "revolute" ELSE "fixed"
JointObjs == { j \in [name : JointNames, parent : LinkNames, child : LinkNames,
                      joint_type : {"revolute", "fixed"},
                      origin : {JointKind(n).origin : n \in JointNames}] :
                 /\ j.parent # j.child
                 /\ j.name = "j2" => <<j.parent, j.child>> \in {<<"base", "arm">>, <<"arm", "hand">>}
                 /\ j.joint_type = JointType(j.name, j.parent)
                 /\ j.origin = JointKind(j.name).origin }
\* Python's None, where a name or nothing is returned, and where an object is
None == "None"
NoObject == [none |-> TRUE]
\* the names Material (Sensor, ...) objects are constructed with
GenericNames == {"a", "a_1", "ab"}
\* add_aggregate's typeName for the generic kinds
GenericKinds == {"material", "sensors"}
\* the names Visual and Collision objects are constructed with; None: no name
GeoNames == {None, "v"}

(***************************************************************************)
(* Python dict: a sequence of <<key, value>> pairs.                        *)
(***************************************************************************)
DictKeys(d) == [i \in 1..Len(d) |-> d[i][1]]
DictKeySet(d) == {d[i][1] : i \in 1..Len(d)}
DictHas(d, k) == \E i \in 1..Len(d) : d[i][1] = k
DictGet(d, k) == d[CHOOSE i \in 1..Len(d) : d[i][1] = k][2]
\* d[k] = v : an existing key keeps its position, a new key goes last
DictSet(d, k, v) ==
    IF DictHas(d, k)
    THEN [i \in 1..Len(d) |-> IF d[i][1] = k THEN <<k, v>> ELSE d[i]]
    ELSE Append(d, <<k, v>>)

\* `elem in list`
InList(s, e) == \E i \in 1..Len(s) : s[i] = e

RECURSIVE Reverse(_)
Reverse(s) == IF s = <<>> THEN <<>> ELSE Append(Reverse(Tail(s)), Head(s))

\* The outcome of a call: a returned value, or a raised exception.
Ok(v) == [err |-> "none", val |-> v]
Raise(e) == [err |-> e, val |-> None]
\* The outcome of a loop that never exits.
Loops == [err |-> "loops", val |-> None]

VARIABLES
    links,       \* XMLRobot.links
    joints,      \* XMLRobot.joints
    link_map,    \* XMLRobot.link_map : name -> Link
    joint_map,   \* XMLRobot.joint_map : name -> Joint
    parent_map,  \* XMLRobot.parent_map : child -> (joint name, parent)
    child_map,   \* XMLRobot.child_map : parent -> [(joint name, child)]
    last,        \* the last call made: [op, args, ret]
    objname,     \* the name of each Material (Sensor, ...) object constructed;
                 \* the object [oid |-> i] has the name objname[i]
    coll,        \* XMLRobot.materials, XMLRobot.sensors: lists of objects
    built,       \* the Link last constructed: [name, visuals, collisions],
                 \* the visuals and collisions given by their names
    limit        \* Joint.limit of the joint a Motor is bound to: None or a
                 \* JointLimit [effort, velocity, lower, upper]

vars == <<links, joints, link_map, joint_map, parent_map, child_map, last,
          objname, coll, built, limit>>

robot == <<links, joints, link_map, joint_map, parent_map, child_map>>

generic == <<objname, coll>>

NoCall == [op |-> "init", args |-> <<>>, ret |-> Ok(None)]

\* XMLRobot.__init__ with no links and no joints
Init ==
    /\ links = <<>>
    /\ joints = <<>>
    /\ link_map = <<>>
    /\ joint_map = <<>>
    /\ parent_map = <<>>
    /\ child_map = <<>>
    /\ last = NoCall
    /\ objname = <<>>
    /\ coll = [materials |-> <<>>, sensors |-> <<>>]
    /\ built = NoObject
    /\ limit = NoObject

(***************************************************************************)
(* XMLRobot.add_aggregate, kinds "joint" and "link".                       *)
(***************************************************************************)
ChildMapAppend(cm, joint) ==
    IF DictHas(cm, joint.parent)
    THEN DictSet(cm, joint.parent,
                 Append(DictGet(cm, joint.parent), <<joint.name, joint.child>>))
    ELSE DictSet(cm, joint.parent, << <<joint.name, joint.child>> >>)

\* a slip: the entry is filed under the parent instead of the child
ParentMapSetUnderParent(pm, joint) ==
    DictSet(pm, joint.parent, <<joint.name, joint.child>>)

\* a slip: a child that has a parent keeps it
ParentMapSetIfAbsent(pm, joint) ==
    IF DictHas(pm, joint.child) THEN pm
    ELSE DictSet(pm, joint.child, <<joint.name, joint.parent>>)

ParentMapSet(pm, joint) ==
    DictSet(pm, joint.child, <<joint.name, joint.parent>>)

\* the number of add_aggregate("joint", ...) calls made so far: each call
\* appends one entry to child_map
RECURSIVE JointAdds(_)
JointAdds(cm) == IF cm = <<>> THEN 0 ELSE Len(Head(cm)[2]) + JointAdds(Tail(cm))

AddJoint(joint) ==
    /\ JointAdds(child_map) < MaxJointAdds
    /\ joint_map' = DictSet(joint_map, joint.name, joint)
    /\ parent_map' = ParentMapSet(parent_map, joint)
    /\ child_map' = ChildMapAppend(child_map, joint)
    /\ joints' = IF ~InList(joints, joint) THEN joints \o <<joint>> ELSE joints
    /\ last' = [op |-> "add_aggregate", args |-> <<"joint", joint>>, ret |-> Ok(None)]
    /\ UNCHANGED <<links, link_map, generic, built, limit>>

AddLink(link) ==
    /\ Len(links) < MaxLinks \/ InList(links, link)
    /\ link_map' = DictSet(link_map, link.name, link)
    /\ links' = IF ~InList(links, link) THEN links \o <<link>> ELSE links
    /\ last' = [op |-> "add_aggregate", args |-> <<"link", link>>, ret |-> Ok(None)]
    /\ UNCHANGED <<joints, joint_map, parent_map, child_map, generic, built, limit>>

(***************************************************************************)
(* Tree queries of XMLRobot.                                               *)
(***************************************************************************)
RECURSIVE GetRootLoop(_, _)
GetRootLoop(keys, root) ==
    IF keys = <<>>
    THEN IF root = None THEN Raise("AssertionError") ELSE Ok(root)
    ELSE IF ~DictHas(parent_map, Head(keys))
         THEN IF root # None
              THEN Raise("AssertionError")
              ELSE GetRootLoop(Tail(keys), Head(keys))
         ELSE GetRootLoop(Tail(keys), root)

\* a slip: no check that the root is the only one; the last parentless link wins
RECURSIVE GetRootLoopUnchecked(_, _)
GetRootLoopUnchecked(keys, root) ==
    IF keys = <<>>
    THEN IF root = None THEN Raise("AssertionError") ELSE Ok(root)
    ELSE IF ~DictHas(parent_map, Head(keys))
         THEN GetRootLoopUnchecked(Tail(keys), Head(keys))
         ELSE GetRootLoopUnchecked(Tail(keys), root)

GetRootUnchecked == GetRootLoopUnchecked(DictKeys(link_map), None)

GetRoot == GetRootLoop(DictKeys(link_map), None)

\* a slip: the first object is returned, whatever its name
GetInstanceAnyName(objs, target) ==
    IF objs = <<>> THEN NoObject ELSE Head(objs)

\* get_instance(targettype, target) over one of the robot's lists: the
\* first object of that name, or None
RECURSIVE GetInstance(_, _)
GetInstance(objs, target) ==
    IF objs = <<>> THEN NoObject
    ELSE IF Head(objs).name = target THEN Head(objs)
    ELSE GetInstance(Tail(objs), target)

GetLink(link_name) == GetInstance(links, link_name)

GetJoint(joint_name) == GetInstance(joints, joint_name)

GetParent(name, targettype) ==
    IF DictHas(parent_map, name)
    THEN LET parents == DictGet(parent_map, name)
         IN  IF targettype = "link" THEN Ok(<<parents[2]>>)
             ELSE IF targettype = "joint" THEN Ok(<<parents[1]>>)
             ELSE Ok(parents)
    ELSE IF DictHas(child_map, name) THEN Ok(None)
    ELSE Raise("AssertionError")

\* The while loop of get_chain.  The walk is determined by parent_map, so a
\* link met twice is met forever: the loop never exits.
RECURSIVE ChainLoop(_, _, _, _, _, _, _)
ChainLoop(root, link, chain, seen, wjoints, wlinks, fixed) ==
    IF link = root THEN Ok(Reverse(chain))
    ELSE IF ~DictHas(parent_map, link) THEN Raise("KeyError")
    ELSE IF link \in seen THEN Loops
    ELSE LET joint == DictGet(parent_map, link)[1]
             parent == DictGet(parent_map, link)[2]
             c1 == IF wjoints /\ (fixed \/ DictGet(joint_map, joint).joint_type # "fixed")
                   THEN Append(chain, joint) ELSE chain
             c2 == IF wlinks THEN Append(c1, parent) ELSE c1
         IN  ChainLoop(root, parent, c2, seen \cup {link}, wjoints, wlinks, fixed)

\* a slip: a walk that runs out of parents returns an empty chain
GetChainOrEmpty(root, tip, wjoints, wlinks, fixed) ==
    LET walk == ChainLoop(root, tip, IF wlinks THEN <<tip>> ELSE <<>>, {},
                          wjoints, wlinks, fixed)
    IN  IF walk.err = "KeyError" THEN Ok(<<>>) ELSE walk

\* a slip: the chain is not started with the tip
GetChainWithoutTip(root, tip, wjoints, wlinks, fixed) ==
    ChainLoop(root, tip, <<>>, {}, wjoints, wlinks, fixed)

GetChain(root, tip, wjoints, wlinks, fixed) ==
    ChainLoop(root, tip, IF wlinks THEN <<tip>> ELSE <<>>, {}, wjoints, wlinks, fixed)

(***************************************************************************)
(* Homogeneous transforms: 4x4 integer matrices.                           *)
(***************************************************************************)
Cos4(q) == CASE q % 4 = 0 -> 1 [] q % 4 = 1 -> 0 [] q % 4 = 2 -> -1 [] OTHER -> 0
Sin4(q) == CASE q % 4 = 0 -> 0 [] q % 4 = 1 -> 1 [] q % 4 = 2 -> 0 [] OTHER -> -1

\* utils.transform.create_transformation(xyz, rpy): rotation
\* Rz(yaw) Ry(pitch) Rx(roll), translation xyz, bottom row [0,0,0,1]
CreateTransformation(xyz, rpy) ==
    LET cr == Cos4(rpy[1])  sr == Sin4(rpy[1])
        cp == Cos4(rpy[2])  sp == Sin4(rpy[2])
        cy == Cos4(rpy[3])  sy == Sin4(rpy[3])
    IN  << <<cy * cp, cy * sp * sr - sy * cr, cy * sp * cr + sy * sr, xyz[1]>>,
           <<sy * cp, sy * sp * sr + cy * cr, sy * sp * cr - cy * sr, xyz[2]>>,
           <<-sp, cp * sr, cp * cr, xyz[3]>>,
           <<0, 0, 0, 1>> >>

\* numpy's a.dot(b) on 4x4 matrices
Dot(a, b) ==
    [i \in 1..4 |-> [j \in 1..4 |->
        a[i][1] * b[1][j] + a[i][2] * b[2][j] + a[i][3] * b[3][j] + a[i][4] * b[4][j]]]

\* The while loop of get_transformation; a link met twice is met forever.
RECURSIVE TransformLoop(_, _, _, _)
TransformLoop(start, link, transformation, seen) ==
    IF link = start THEN Ok(transformation)
    ELSE IF link \in seen THEN Loops
    ELSE LET parent == GetParent(link, "joint")
         IN  IF parent.err # "none" THEN parent
             ELSE IF parent.val = None THEN Raise("Exception")
             ELSE LET pjoint == GetJoint(parent.val[1])
                  IN  TransformLoop(start, pjoint.parent,
                          Dot(CreateTransformation(pjoint.origin.xyz, pjoint.origin.rpy),
                              transformation),
                          seen \cup {link})

\* get_transformation(end, start); start = None is the default
GetTransformation(end, start) ==
    LET root == IF start = None THEN GetRoot ELSE Ok(start)
    IN  IF root.err # "none" THEN root
        ELSE TransformLoop(root.val, end,
                           CreateTransformation(<<0, 0, 0>>, <<0, 0, 0>>), {})

\* utils.tree.get_joints_depth_first(robot, root): the joints reachable from
\* root, each once, a joint before the joints below its child
RECURSIVE DepthFirstFrom(_, _, _)
DepthFirstFrom(link, i, acc) ==
    IF i > Len(joints) THEN acc
    ELSE IF joints[i].parent = link /\ ~InList(acc, joints[i])
         THEN DepthFirstFrom(link, i + 1,
                  DepthFirstFrom(joints[i].child, 1, Append(acc, joints[i])))
         ELSE DepthFirstFrom(link, i + 1, acc)

GetJointsDepthFirst(root) == DepthFirstFrom(root, 1, <<>>)

GetJointsOrderedDf ==
    IF GetRoot.err # "none" THEN GetRoot ELSE Ok(GetJointsDepthFirst(GetRoot.val))

\* a slip: the root is left out of the list
GetLinksOrderedDfWithoutRoot ==
    IF GetJointsOrderedDf.err # "none" THEN GetJointsOrderedDf
    ELSE LET jts == GetJointsOrderedDf.val
             out == [i \in 1..Len(jts) |-> jts[i].child]
         IN  Ok([i \in 1..Len(out) |-> GetLink(out[i])])

GetLinksOrderedDf ==
    IF GetJointsOrderedDf.err # "none" THEN GetJointsOrderedDf
    ELSE LET jts == GetJointsOrderedDf.val
             out == <<GetRoot.val>> \o [i \in 1..Len(jts) |-> jts[i].child]
         IN  Ok([i \in 1..Len(out) |-> GetLink(out[i])])

\* get_children(name, targettype) for a single name
GetChildren(name, targettype) ==
    LET children == IF DictHas(child_map, name) THEN DictGet(child_map, name) ELSE <<>>
    IN  IF targettype = "joint" THEN [i \in 1..Len(children) |-> children[i][1]]
        ELSE IF targettype = "link" THEN [i \in 1..Len(children) |-> children[i][2]]
        ELSE children

\* the for loop of _get_children_lists
RECURSIVE ChildsOf(_, _)
ChildsOf(parentlist, targettype) ==
    IF parentlist = <<>> THEN <<>>
    ELSE GetChildren(Head(parentlist), targettype) \o ChildsOf(Tail(parentlist), targettype)

\* _get_children_lists(parentlist, childrenlist, targettype).  A descent
\* through more levels than there are link names goes round a cycle and
\* ends in Python's RecursionError.
RECURSIVE GetChildrenLists(_, _, _, _)
GetChildrenLists(parentlist, childrenlist, targettype, depth) ==
    LET childs == ChildsOf(parentlist, targettype)
    IN  IF Len(childs) > 0
        THEN IF depth > Cardinality(LinkNames) THEN Raise("RecursionError")
             ELSE LET new == GetChildrenLists(childs, <<>>, "link", depth + 1)
                  IN  IF new.err # "none" THEN new
                      ELSE Ok(<<parentlist \o new.val[1],
                                childrenlist \o childs \o new.val[2]>>)
        ELSE Ok(<< <<>>, <<>> >>)

\* get_leaves(start) for a start given; the pair of sets is a record
GetLeaves(start) ==
    IF ~DictHas(parent_map, start) THEN Ok(NoObject)
    ELSE LET lists == GetChildrenLists(<<start>>, <<>>, "link", 1)
         IN  IF lists.err # "none" THEN lists
             ELSE Ok([parents |-> {lists.val[1][i] : i \in 1..Len(lists.val[1])},
                      children |-> {lists.val[2][i] : i \in 1..Len(lists.val[2])}])

\* The while loop of get_link_level.  parent is what get_parent returned: None
\* or a list of one joint name.  The walk is determined by that name, so a
\* name met twice is met forever.
RECURSIVE LinkLevelLoop(_, _, _)
LinkLevelLoop(parent, level, seen) ==
    IF parent = None THEN Ok(level)
    ELSE IF parent[1] \in seen THEN Loops
    ELSE LET joint == GetJoint(parent[1])
         IN  IF joint = NoObject THEN Raise("AttributeError")
             ELSE LET next == GetParent(joint.parent, "joint")
                  IN  IF next.err # "none" THEN next
                      ELSE LinkLevelLoop(next.val, level + 1, seen \cup {parent[1]})

GetLinkLevel(linkname) ==
    LET parent == GetParent(linkname, "joint")
    IN  IF parent.err # "none" THEN parent
        ELSE LinkLevelLoop(parent.val, 0, {})

GetJointLevel(jointname) ==
    LET joint == GetJoint(jointname)
    IN  IF joint = NoObject THEN Raise("AttributeError")
        ELSE GetLinkLevel(joint.parent)

(***************************************************************************)
(* The queries as calls.  A query leaves the robot as it is, so the caller *)
(* makes the call with each of its arguments in turn; `last` records the   *)
(* outcome of each: ret[args] is the outcome of the call with args.        *)
(***************************************************************************)
Call(op, ret) ==
    /\ last' = [op |-> op, args |-> <<>>, ret |-> ret]
    /\ UNCHANGED <<robot, generic, built, limit>>

CallGetRoot == Call("get_root", GetRoot)

\* get_chain(root, tip, joints, links, fixed), for all link names root and
\* tip and all values of the three flags
CallGetChain ==
    Call("get_chain",
         [a \in LinkNames \X LinkNames \X BOOLEAN \X BOOLEAN \X BOOLEAN |->
              GetChain(a[1], a[2], a[3], a[4], a[5])])

\* get_transformation(end) and get_transformation(end, start), for all link
\* names end and start
CallGetTransformation ==
    Call("get_transformation",
         [a \in LinkNames \X (LinkNames \cup {None}) |-> GetTransformation(a[1], a[2])])

CallGetLinksOrderedDf == Call("get_links_ordered_df", GetLinksOrderedDf)

\* get_link_level(linkname), for all link names
CallGetLinkLevel == Call("get_link_level", [n \in LinkNames |-> GetLinkLevel(n)])

\* get_joint_level(jointname), for all joint names
CallGetJointLevel == Call("get_joint_level", [n \in JointNames |-> GetJointLevel(n)])

\* get_leaves(start), for all link names start
CallGetLeaves == Call("get_leaves", [start \in LinkNames |-> GetLeaves(start)])

Next ==
    \/ \E link \in LinkObjs : AddLink(link)
    \/ \E joint \in JointObjs : AddJoint(joint)

Spec == Init /\ [][Next]_vars

NextQuery ==
    \/ \E link \in UniqueLinks : AddLink(link)
    \/ \E joint \in JointObjs : AddJoint(joint)
    \/ CallGetRoot
    \/ CallGetChain
    \/ CallGetTransformation
    \/ CallGetLinksOrderedDf
    \/ CallGetLeaves
    \/ CallGetLinkLevel
    \/ CallGetJointLevel

SpecQuery == Init /\ [][NextQuery]_vars
(***************************************************************************)
(* XMLRobot.add_aggregate, the generic kinds (material, sensor, ...).      *)
(***************************************************************************)
\* Material(name=n), Sensor(name=n), ...: a new object
NewNamed(n) ==
    /\ Len(objname) < MaxObjs
    /\ objname' = Append(objname, n)
    /\ last' = [op |-> "new", args |-> <<n>>, ret |-> Ok(None)]
    /\ UNCHANGED <<robot, coll, built, limit>>

\* typeName, with an "s" appended unless it ends with one
AttrName(typeName) ==
    IF SubSeq(typeName, Len(typeName), Len(typeName)) = "s"
    THEN typeName ELSE typeName \o "s"

\* Python's `a in b` on strings
IsSubstring(a, b) ==
    \E i \in 1..(Len(b) - Len(a) + 1) : SubSeq(b, i, i + Len(a) - 1) = a

\* the names of the objects whose name contains elem's name
Instances(objects, names, elem) ==
    LET Collides(obj) == IsSubstring(names[elem.oid], names[obj.oid])
        sel == SelectSeq(objects, Collides)
    IN  [i \in 1..Len(sel) |-> names[sel[i].oid]]

\* the names after add_aggregate(typeName, elem)
RenamedNames(objects, names, elem) ==
    IF Instances(objects, names, elem) # <<>>
    THEN [names EXCEPT ![elem.oid] =
              names[elem.oid] \o "_" \o ToString(Len(Instances(objects, names, elem)))]
    ELSE names

\* the number of entries of the generic collections
GenericAdds == Len(coll.materials) + Len(coll.sensors)

AddGeneric(typeName, elem) ==
    /\ GenericAdds < MaxGeneric
    /\ objname' = RenamedNames(coll[AttrName(typeName)], objname, elem)
    /\ coll' = [coll EXCEPT ![AttrName(typeName)] = coll[AttrName(typeName)] \o <<elem>>]
    /\ last' = [op |-> "add_aggregate", args |-> <<typeName, elem>>, ret |-> Ok(None)]
    /\ UNCHANGED <<robot, built, limit>>

\* get_material(material_name) in a list of materials with the given names
RECURSIVE GetMaterialIn(_, _, _)
GetMaterialIn(mats, names, material_name) ==
    IF mats = <<>> THEN NoObject
    ELSE IF names[Head(mats).oid] = material_name THEN Head(mats)
    ELSE GetMaterialIn(Tail(mats), names, material_name)

GetMaterial(material_name) == GetMaterialIn(coll.materials, objname, material_name)

\* a slip: the material is handed to add_aggregate whether it is known or not
VisualAddsAlways(material) == TRUE

\* Visual.link_with_robot: whether the visual's material is handed to
\* add_aggregate
VisualAdds(material) == GetMaterial(objname[material.oid]) = NoObject

\* Visual.link_with_robot(robot), of a Visual whose material is `material`
LinkVisual(material) ==
    /\ VisualAdds(material) => GenericAdds < MaxGeneric
    /\ objname' = IF VisualAdds(material)
                  THEN RenamedNames(coll.materials, objname, material)
                  ELSE objname
    /\ coll' = IF VisualAdds(material)
               THEN [coll EXCEPT !.materials = coll.materials \o <<material>>]
               ELSE coll
    /\ last' = [op |-> "link_with_robot", args |-> <<material>>,
                ret |-> IF material = GetMaterialIn(coll'.materials, objname',
                                                    objname'[material.oid])
                        THEN Ok(None) ELSE Raise("AssertionError")]
    /\ UNCHANGED <<robot, built, limit>>

NextGeneric ==
    \/ \E n \in GenericNames : NewNamed(n)
    \/ \E typeName \in GenericKinds, i \in 1..Len(objname) :
           AddGeneric(typeName, [oid |-> i])
    \/ \E i \in 1..Len(objname) : LinkVisual([oid |-> i])

SpecGeneric == Init /\ [][NextGeneric]_vars

(***************************************************************************)
(* Lookups by name: get_link, get_joint, get_material, get_sensor.         *)
(***************************************************************************)
\* the names looked up: those entities are constructed with, and "nil",
\* which none is
LookupNames == LinkNames \cup JointNames \cup GenericNames \cup {"nil"}

\* get_sensor(sensor_name): get_instance over robot.sensors
GetSensor(sensor_name) == GetMaterialIn(coll.sensors, objname, sensor_name)

CallGetLink == Call("get_link", [n \in LookupNames |-> Ok(GetLink(n))])

CallGetJoint == Call("get_joint", [n \in LookupNames |-> Ok(GetJoint(n))])

CallGetMaterial == Call("get_material", [n \in LookupNames |-> Ok(GetMaterial(n))])

CallGetSensor == Call("get_sensor", [n \in LookupNames |-> Ok(GetSensor(n))])

\* For a lookup by name the names in the lists matter, and which object of a
\* name comes first: the links attached are the two objects named "base", the
\* joints the two named "j1" from "base", the generic objects are constructed
\* with the name "a" or "ab".
NextLookup ==
    \/ \E link \in {l \in LinkObjs : l.name = "base"} : AddLink(link)
    \/ \E joint \in {j \in JointObjs : j.parent = "base" /\ j.name = "j1"} :
           AddJoint(joint)
    \/ \E n \in {"a", "ab"} : NewNamed(n)
    \/ \E typeName \in GenericKinds, i \in 1..Len(objname) :
           AddGeneric(typeName, [oid |-> i])
    \/ CallGetLink
    \/ CallGetJoint
    \/ CallGetMaterial
    \/ CallGetSensor

SpecLookup == Init /\ [][NextLookup]_vars

(***************************************************************************)
(* Link.__init__: the names of the link's visuals and collisions.          *)
(***************************************************************************)
\* the loop over self.collisions (suffix "_collision") and the one over
\* self.visuals (suffix "_visual"); geos are the names given, None for none
NameGeometries(link_name, geos, suffix) ==
    [k \in 1..Len(geos) |->
        LET i == 0
        IN  IF geos[k] = None
            THEN IF i > 0 THEN link_name \o suffix \o ToString(i)
                 ELSE link_name \o suffix
            ELSE geos[k]]

LinkInit(name, visuals, collisions) ==
    /\ built' = [name |-> name,
                 visuals |-> NameGeometries(name, visuals, "_visual"),
                 collisions |-> NameGeometries(name, collisions, "_collision")]
    /\ last' = [op |-> "Link", args |-> <<name, visuals, collisions>>, ret |-> Ok(None)]
    /\ UNCHANGED <<robot, generic, limit>>

\* the lists of at most MaxGeo geometries
GeoLists == UNION {[1..n -> GeoNames] : n \in 0..MaxGeo}

NextLink ==
    \E name \in LinkNames, visuals \in GeoLists, collisions \in GeoLists :
        LinkInit(name, visuals, collisions)

SpecLink == Init /\ [][NextLink]_vars

(***************************************************************************)
(* Motor: minValue and maxValue, read from and written to the limit of the *)
(* joint the motor is bound to.                                            *)
(***************************************************************************)
\* the numbers assigned
MotorValues == {-2, -1, 0, 1, 2}

\* the limits a joint is constructed with: none, or a JointLimit whose
\* lower is at most its upper
JointLimits ==
    {NoObject} \cup
    {l \in [effort : {0, 1}, velocity : {0, 1}, lower : MotorValues, upper : MotorValues] :
        l.lower <= l.upper}

\* Joint(..., limit=l), with a Motor bound to the joint, in an empty robot
InitMotor ==
    /\ links = <<>>
    /\ joints = <<>>
    /\ link_map = <<>>
    /\ joint_map = <<>>
    /\ parent_map = <<>>
    /\ child_map = <<>>
    /\ last = NoCall
    /\ objname = <<>>
    /\ coll = [materials |-> <<>>, sensors |-> <<>>]
    /\ built = NoObject
    /\ limit \in JointLimits

\* the getters
MaxEffort == IF limit # NoObject THEN limit.effort ELSE 0
MaxSpeed == IF limit # NoObject THEN limit.velocity ELSE 0
MaxValue == IF limit # NoObject THEN limit.upper ELSE 0
MinValue == IF limit # NoObject THEN limit.lower ELSE 0

\* a slip: maxval is not compared with minValue
MaxValueAcceptsAny(maxval) == TRUE

\* the condition of the maxValue setter, for a number
MaxValueAccepts(maxval) == maxval >= MinValue

\* the condition of the minValue setter, for a number
MinValueAccepts(minval) == minval <= MaxValue

\* motor.maxValue = maxval
SetMaxValue(maxval) ==
    /\ limit' = IF MaxValueAccepts(maxval)
                THEN IF limit # NoObject THEN [limit EXCEPT !.upper = maxval]
                     ELSE [effort |-> MaxEffort, velocity |-> MaxSpeed,
                           lower |-> MinValue, upper |-> maxval]
                ELSE limit
    /\ last' = [op |-> "maxValue", args |-> <<maxval>>, ret |-> Ok(None)]
    /\ UNCHANGED <<robot, generic, built>>

\* motor.minValue = minval
SetMinValue(minval) ==
    /\ limit' = IF MinValueAccepts(minval)
                THEN IF limit # NoObject THEN [limit EXCEPT !.lower = minval]
                     ELSE [effort |-> MaxEffort, velocity |-> MaxSpeed,
                           lower |-> minval, upper |-> MaxValue]
                ELSE limit
    /\ last' = [op |-> "minValue", args |-> <<minval>>, ret |-> Ok(None)]
    /\ UNCHANGED <<robot, generic, built>>

NextMotor ==
    \/ \E maxval \in MotorValues : SetMaxValue(maxval)
    \/ \E minval \in MotorValues : SetMinValue(minval)

SpecMotor == InitMotor /\ [][NextMotor]_vars

(***************************************************************************)
(* The robot as the lists describe it, for the properties below.           *)
(***************************************************************************)
LinkSet == {links[i] : i \in 1..Len(links)}
JointSet == {joints[i] : i \in 1..Len(joints)}
LinkNameSet == {l.name : l \in LinkSet}
\* the joints of the joints list that enter link n
Incoming(n) == {j \in JointSet : j.child = n}
UniqueNames(s) == \A i, k \in 1..Len(s) : i # k => s[i].name # s[k].name
Parentless == {n \in LinkNameSet : Incoming(n) = {}}

\* the link reached from n by going up at most k joints, None when the way
\* up does not end
RECURSIVE Up(_, _)
Up(n, k) ==
    IF Incoming(n) = {} THEN n
    ELSE IF k = 0 THEN None
    ELSE Up((CHOOSE j \in Incoming(n) : TRUE).parent, k - 1)

\* The links (told apart by their names, by which the joints refer to them)
\* and the joints form a single tree.
TreeShaped ==
    /\ links # <<>>
    /\ UniqueNames(links)
    /\ \A j \in JointSet : j.parent \in LinkNameSet /\ j.child \in LinkNameSet
    /\ Cardinality(Parentless) = 1
    /\ \A n \in LinkNameSet \ Parentless : Cardinality(Incoming(n)) = 1
    /\ \A n \in LinkNameSet : Up(n, Len(links)) \in Parentless

TreeRoot == CHOOSE r \in Parentless : TRUE

\* the joints on the way from the root down to link n, in a tree
RECURSIVE PathJoints(_)
PathJoints(n) ==
    IF Incoming(n) = {} THEN <<>>
    ELSE LET j == CHOOSE x \in Incoming(n) : TRUE
         IN  Append(PathJoints(j.parent), j)

Depth(n) == Len(PathJoints(n))

Identity4 == << <<1, 0, 0, 0>>, <<0, 1, 0, 0>>, <<0, 0, 1, 0>>, <<0, 0, 0, 1>> >>

\* T_1 * T_2 * ... * T_k for the origins of a sequence of joints
RECURSIVE Compose(_)
Compose(js) ==
    IF js = <<>> THEN Identity4
    ELSE Dot(CreateTransformation(Head(js).origin.xyz, Head(js).origin.rpy),
             Compose(Tail(js)))

ChildEntries(p) == IF DictHas(child_map, p) THEN DictGet(child_map, p) ELSE <<>>

JointsFrom(p) ==
    LET From(j) == j.parent = p
        sel == SelectSeq(joints, From)
    IN  [i \in 1..Len(sel) |-> <<sel[i].name, sel[i].child>>]

(***************************************************************************)
(* C1: after any add_aggregate calls of kind link or joint, every entity   *)
(* of the links list (of the joints list) is the value stored under its    *)
(* own name in link_map (in joint_map), also when two distinct entities of *)
(* one name were attached.                                                 *)
(***************************************************************************)
C1_MapsHoldEveryAttached ==
    /\ \A i \in 1..Len(links) :
          /\ DictHas(link_map, links[i].name)
          /\ DictGet(link_map, links[i].name) = links[i]
    /\ \A i \in 1..Len(joints) :
          /\ DictHas(joint_map, joints[i].name)
          /\ DictGet(joint_map, joints[i].name) = joints[i]

(***************************************************************************)
(* C2: after any add_aggregate joint calls, the same joint attached twice  *)
(* included, child_map[p] is the list of the (joint name, child) pairs of  *)
(* the joints of the joints list whose parent is p, one entry per joint in *)
(* insertion order, and the keys of parent_map are the child names of the  *)
(* joints of the joints list.                                              *)
(***************************************************************************)
C2_IndicesInSync ==
    /\ \A p \in LinkNames : ChildEntries(p) = JointsFrom(p)
    /\ DictKeySet(parent_map) = {j.child : j \in JointSet}

(***************************************************************************)
(* C3, as claimed: in every reachable state exactly one registered link    *)
(* has no incoming joint and every other registered link is the child of   *)
(* exactly one joint of the joints list.                                   *)
(***************************************************************************)
C3_AlwaysATree ==
    /\ Cardinality({n \in DictKeySet(link_map) : Incoming(n) = {}}) = 1
    /\ \A n \in DictKeySet(link_map) :
          Incoming(n) # {} => Cardinality(Incoming(n)) = 1

(***************************************************************************)
(* C3, amended: in every reachable state parent_map holds one entry per    *)
(* link that is the child of a joint of the joints list, and none for any  *)
(* other link; a link's entry names a joint of the joints list that enters *)
(* it and that joint's parent.  The number of parentless links and of      *)
(* joints entering one link is not restricted.                             *)
(***************************************************************************)
C3_SingleParentView ==
    /\ \A i, k \in 1..Len(parent_map) : i # k => parent_map[i][1] # parent_map[k][1]
    /\ \A n \in LinkNames :
          /\ DictHas(parent_map, n) <=> Incoming(n) # {}
          /\ DictHas(parent_map, n) =>
                \E j \in Incoming(n) : DictGet(parent_map, n) = <<j.name, j.parent>>

\* two joints of the joints list enter one registered link
C3_Witness ==
    \E n \in DictKeySet(link_map) :
        /\ Cardinality(Incoming(n)) = 2
        /\ DictHas(parent_map, n)

(***************************************************************************)
(* C4: get_root returns the one key of link_map that is no key of          *)
(* parent_map, and fails with an assertion error when there is none or     *)
(* more than one; two links with no joint between them fail.               *)
(***************************************************************************)
C4_GetRoot ==
    last.op = "get_root" =>
        LET parentless == DictKeySet(link_map) \ DictKeySet(parent_map)
        IN  IF Cardinality(parentless) = 1
            THEN last.ret = Ok(CHOOSE n \in parentless : TRUE)
            ELSE last.ret = Raise("AssertionError")

\* get_root has failed on two links with no joint
C4_Witness ==
    /\ last.op = "get_root"
    /\ Len(links) = 2 /\ Len(link_map) = 2 /\ joints = <<>>
    /\ last.ret = Raise("AssertionError")

(***************************************************************************)
(* C5: in a robot whose joints form a single tree rooted at R, get_root    *)
(* returns R, and get_chain(R, L) returns for every link L a path that     *)
(* starts with R, ends with L and has depth(L)+1 link entries.             *)
(***************************************************************************)
C5_TreeConsistency ==
    TreeShaped =>
        /\ last.op = "get_root" => last.ret = Ok(TreeRoot)
        /\ last.op = "get_chain" =>
              \A L \in LinkNameSet :
                  /\ last.ret[<<TreeRoot, L, TRUE, TRUE, TRUE>>].err = "none"
                  /\ LET chain == last.ret[<<TreeRoot, L, TRUE, TRUE, TRUE>>].val
                     IN  /\ Len(chain) > 0
                         /\ chain[1] = TreeRoot
                         /\ chain[Len(chain)] = L
                         /\ Cardinality({i \in 1..Len(chain) : chain[i] \in LinkNameSet})
                               = Depth(L) + 1

\* get_chain has returned the path to a link two joints below the root
C5_Witness ==
    /\ TreeShaped
    /\ last.op = "get_chain"
    /\ \E L \in LinkNameSet :
          /\ Depth(L) = 2
          /\ last.ret[<<TreeRoot, L, TRUE, TRUE, TRUE>>].err = "none"
          /\ Len(last.ret[<<TreeRoot, L, TRUE, TRUE, TRUE>>].val) = 5

(***************************************************************************)
(* C6: in a tree-shaped robot get_transformation(end), with the default    *)
(* start, is the product T_j1 * ... * T_jk of the origin transforms of the *)
(* joints on the path from the root to end, the joint at the root          *)
(* leftmost, and the identity when end is the root; for base --j1--> arm   *)
(* with origin xyz=[1,0,0], rpy=[0,0,0] it is the translation by [1,0,0]   *)
(* with the identity rotation.                                             *)
(***************************************************************************)
C6_TransformationHolds(tree) ==
    (tree /\ last.op = "get_transformation") =>
        /\ \A end \in LinkNameSet :
              last.ret[<<end, None>>] = Ok(Compose(PathJoints(end)))
        /\ last.ret[<<TreeRoot, None>>] = Ok(Identity4)
        /\ (/\ LinkNameSet = {"base", "arm"}
            /\ joints = << [name |-> "j1", parent |-> "base", child |-> "arm",
                            joint_type |-> "revolute",
                            origin |-> [xyz |-> <<1, 0, 0>>, rpy |-> <<0, 0, 0>>]] >>) =>
               last.ret[<<"arm", None>>] =
                   Ok(<< <<1, 0, 0, 1>>, <<0, 1, 0, 0>>, <<0, 0, 1, 0>>, <<0, 0, 0, 1>> >>)

C6_Transformation == C6_TransformationHolds(TreeShaped)

\* C6 where no two joints of the tree share a name: there the product is
\* what get_transformation returns.
C6_TransformationUniqueJointNames ==
    C6_TransformationHolds(TreeShaped /\ UniqueNames(joints))

\* get_transformation has composed two transforms that do not commute
C6_Witness ==
    /\ TreeShaped
    /\ last.op = "get_transformation"
    /\ \E end \in LinkNameSet :
          /\ Depth(end) = 2
          /\ last.ret[<<end, None>>] = Ok(Compose(PathJoints(end)))
          /\ Compose(PathJoints(end)) # Compose(Reverse(PathJoints(end)))

(***************************************************************************)
(* C9: in a tree-shaped robot get_links_ordered_df returns a sequence that *)
(* begins with the link named by get_root and holds every link of the      *)
(* robot exactly once, the tree walk returning the joints reachable from   *)
(* the root in depth-first order.                                          *)
(***************************************************************************)
C9_LinksOrderedDf ==
    (TreeShaped /\ last.op = "get_links_ordered_df") =>
        /\ last.ret.err = "none"
        /\ LET out == last.ret.val
           IN  /\ Len(out) = Len(links)
               /\ out[1] \in LinkSet
               /\ Ok(out[1].name) = GetRoot
               /\ \A l \in LinkSet : Cardinality({i \in 1..Len(out) : out[i] = l}) = 1

\* get_links_ordered_df has listed a tree of three links
C9_Witness ==
    /\ TreeShaped
    /\ last.op = "get_links_ordered_df"
    /\ Len(links) = 3
    /\ last.ret.err = "none"

Distinct(s) == \A i, k \in 1..Len(s) : i # k => s[i] # s[k]

(***************************************************************************)
(* C7: after any add_aggregate calls of a generic kind, no two elements of *)
(* one collection have the same name (stated of two different objects).    *)
(***************************************************************************)
C7_GenericNamesDistinct ==
    \A attr \in DOMAIN coll :
        \A i, k \in 1..Len(coll[attr]) :
            coll[attr][i] # coll[attr][k] =>
                objname[coll[attr][i].oid] # objname[coll[attr][k].oid]

(***************************************************************************)
(* C8: linking a Visual whose material name is unknown to the robot        *)
(* registers the material; linking a Visual whose material object is the   *)
(* registered one of its name leaves the single entry for it; linking a    *)
(* Visual whose material is another object than the registered one of its  *)
(* name fails and leaves robot.materials unchanged.                        *)
(***************************************************************************)
Count(s, e) == Cardinality({i \in 1..Len(s) : s[i] = e})

C8_LinkStep ==
    last'.op = "link_with_robot" =>
        LET material == last'.args[1]
            known == GetMaterial(objname[material.oid])
        IN  /\ known = NoObject =>
                  coll'.materials = Append(coll.materials, material)
            /\ (known = material /\ Count(coll.materials, material) = 1) =>
                  /\ coll'.materials = coll.materials
                  /\ Count(coll'.materials, material) = 1
                  /\ last'.ret = Ok(None)
            /\ (known # NoObject /\ known # material) =>
                  /\ last'.ret = Raise("AssertionError")
                  /\ coll'.materials = coll.materials
                  /\ objname' = objname

C8_MaterialReuse == [][C8_LinkStep]_vars

\* a Visual was linked whose material is not the registered one of its name
C8_Witness ==
    /\ last.op = "link_with_robot"
    /\ last.ret = Raise("AssertionError")
    /\ Len(coll.materials) = 1
    /\ objname[coll.materials[1].oid] = objname[last.args[1].oid]
    /\ coll.materials[1] # last.args[1]

(***************************************************************************)
(* C10: after Link.__init__ the names of the link's visuals are pairwise   *)
(* distinct, and so are the names of its collisions, whatever number of    *)
(* them was constructed without a name (the names given being distinct).   *)
(***************************************************************************)
Named(geos) == SelectSeq(geos, LAMBDA g : g # None)

C10_GeometryNamesDistinct ==
    last.op = "Link" =>
        /\ Distinct(Named(last.args[2])) => Distinct(built.visuals)
        /\ Distinct(Named(last.args[3])) => Distinct(built.collisions)

(***************************************************************************)
(* C11: in any robot state get_link, get_joint, get_material and           *)
(* get_sensor, called with a name that no entity of that kind carries,     *)
(* return None and do not raise; and a call of any of them leaves every    *)
(* collection and index of the robot as it was.                            *)
(***************************************************************************)
Lookups == {"get_link", "get_joint", "get_material", "get_sensor"}

\* the names carried by the entities that lookup op searches
NamesOf(op) ==
    CASE op = "get_link" -> {links[i].name : i \in 1..Len(links)}
      [] op = "get_joint" -> {joints[i].name : i \in 1..Len(joints)}
      [] op = "get_material" ->
             {objname[coll.materials[i].oid] : i \in 1..Len(coll.materials)}
      [] op = "get_sensor" ->
             {objname[coll.sensors[i].oid] : i \in 1..Len(coll.sensors)}

C11_MissIsNone ==
    last.op \in Lookups =>
        \A n \in LookupNames \ NamesOf(last.op) : last.ret[n] = Ok(NoObject)

C11_LookupStep ==
    last'.op \in Lookups => UNCHANGED <<robot, generic>>

C11_LookupMiss == [](C11_MissIsNone) /\ [][C11_LookupStep]_vars

\* get_joint has missed a name while the robot has joints of another name
C11_Witness ==
    /\ last.op = "get_joint"
    /\ Len(joints) = 2
    /\ "j2" \notin NamesOf("get_joint")
    /\ last.ret["j2"] = Ok(NoObject)
    /\ last.ret["j1"] = Ok(joints[1])

(***************************************************************************)
(* C12: attaching a joint sets parent_map[joint.child] to (joint.name,     *)
(* joint.parent) whatever entry the child had, and changes no other entry; *)
(* no other step changes parent_map, so that parent_map[c] always names    *)
(* the joint attached last among those whose child is c.  No attachment is *)
(* rejected because the child has a parent already.                        *)
(***************************************************************************)
C12_AttachStep ==
    IF last'.op = "add_aggregate" /\ last'.args[1] = "joint"
    THEN LET joint == last'.args[2]
         IN  /\ last'.ret = Ok(None)
             /\ DictHas(parent_map', joint.child)
             /\ DictGet(parent_map', joint.child) = <<joint.name, joint.parent>>
             /\ \A c \in LinkNames \ {joint.child} :
                   /\ DictHas(parent_map', c) <=> DictHas(parent_map, c)
                   /\ DictHas(parent_map, c) =>
                         DictGet(parent_map', c) = DictGet(parent_map, c)
    ELSE parent_map' = parent_map

C12_NeverRejected ==
    \A joint \in JointObjs :
        (DictHas(parent_map, joint.child) /\ JointAdds(child_map) < MaxJointAdds) =>
            ENABLED AddJoint(joint)

C12_LastAttachedWins == [](C12_NeverRejected) /\ [][C12_AttachStep]_vars

\* a second joint into a link has replaced the link's entry in parent_map
C12_Witness ==
    /\ last.op = "add_aggregate"
    /\ last.args[1] = "joint"
    /\ Len(joints) = 2
    /\ joints[1].child = joints[2].child
    /\ joints[1].parent # joints[2].parent
    /\ last.args[2] = joints[2]
    /\ DictGet(parent_map, joints[2].child) = <<joints[2].name, joints[2].parent>>

(***************************************************************************)
(* C13: in a tree-shaped robot, for tip a descendant of root or root       *)
(* itself, get_chain(root, tip, joints, links, fixed) returns the names    *)
(* from root to tip: link, joint, link, ... with joints and links true;    *)
(* with fixed false exactly the joints of the path whose joint_type is     *)
(* 'fixed' are left out and every link is kept; with links false only the  *)
(* joint names remain; get_chain(root, root) is [root].                    *)
(***************************************************************************)
\* root is tip or above it, in a tree
IsAncestorOrSelf(root, tip) ==
    /\ Depth(root) <= Depth(tip)
    /\ SubSeq(PathJoints(tip), 1, Depth(root)) = PathJoints(root)

\* the names a sequence of joints going down contributes
RECURSIVE ChainBelow(_, _, _, _)
ChainBelow(js, wjoints, wlinks, fixed) ==
    IF js = <<>> THEN <<>>
    ELSE (IF wjoints /\ (fixed \/ Head(js).joint_type # "fixed")
          THEN <<Head(js).name>> ELSE <<>>)
         \o (IF wlinks THEN <<Head(js).child>> ELSE <<>>)
         \o ChainBelow(Tail(js), wjoints, wlinks, fixed)

ExpectedChain(root, tip, wjoints, wlinks, fixed) ==
    (IF wlinks THEN <<root>> ELSE <<>>)
    \o ChainBelow(SubSeq(PathJoints(tip), Depth(root) + 1, Depth(tip)),
                  wjoints, wlinks, fixed)

C13_ChainHolds(tree) ==
    (tree /\ last.op = "get_chain") =>
        /\ \A root \in LinkNameSet, tip \in LinkNameSet :
              IsAncestorOrSelf(root, tip) =>
                  \A wjoints \in BOOLEAN, wlinks \in BOOLEAN, fixed \in BOOLEAN :
                      last.ret[<<root, tip, wjoints, wlinks, fixed>>]
                          = Ok(ExpectedChain(root, tip, wjoints, wlinks, fixed))
        /\ \A root \in LinkNameSet :
              last.ret[<<root, root, TRUE, TRUE, TRUE>>] = Ok(<<root>>)
        /\ ("base" \in Parentless /\ [name |-> "j1", parent |-> "base", child |-> "arm",
                  joint_type |-> "revolute",
                  origin |-> [xyz |-> <<1, 0, 0>>, rpy |-> <<0, 0, 0>>]] \in JointSet) =>
               last.ret[<<"base", "arm", TRUE, TRUE, TRUE>>] = Ok(<<"base", "j1", "arm">>)

C13_ChainFlags == C13_ChainHolds(TreeShaped)

\* C13 where no two joints of the tree share a name
C13_ChainFlagsUniqueJointNames == C13_ChainHolds(TreeShaped /\ UniqueNames(joints))

\* get_chain has walked a path of two joints of one name, one of them fixed
C13_Witness ==
    /\ TreeShaped
    /\ last.op = "get_chain"
    /\ \E tip \in LinkNameSet :
          /\ Depth(tip) = 2
          /\ PathJoints(tip)[1].name = PathJoints(tip)[2].name
          /\ PathJoints(tip)[1].joint_type # PathJoints(tip)[2].joint_type
          /\ last.ret[<<TreeRoot, tip, TRUE, TRUE, FALSE>>].err = "none"

(***************************************************************************)
(* C14: in a tree-shaped robot get_chain(root, tip), with a tip that is    *)
(* neither root nor below root, fails with a KeyError and returns no       *)
(* chain; a call of get_chain does not modify the robot.                   *)
(***************************************************************************)
\* tip is neither root nor a descendant of root
NotBelow(root, tip) ==
    /\ tip # root
    /\ ~(root \in LinkNameSet /\ tip \in LinkNameSet /\ IsAncestorOrSelf(root, tip))

C14_KeyError ==
    (TreeShaped /\ last.op = "get_chain") =>
        \A root \in LinkNames, tip \in LinkNames :
            NotBelow(root, tip) =>
                \A wjoints \in BOOLEAN, wlinks \in BOOLEAN, fixed \in BOOLEAN :
                    last.ret[<<root, tip, wjoints, wlinks, fixed>>] = Raise("KeyError")

C14_ChainStep == last'.op = "get_chain" => UNCHANGED <<robot, generic>>

C14_ChainOutsideSubtree == [](C14_KeyError) /\ [][C14_ChainStep]_vars

\* get_chain has failed between two links that have the same parent
C14_Witness ==
    /\ TreeShaped
    /\ last.op = "get_chain"
    /\ \E root \in LinkNameSet, tip \in LinkNameSet :
          /\ Depth(root) = 1 /\ Depth(tip) = 1 /\ root # tip
          /\ last.ret[<<root, tip, TRUE, TRUE, TRUE>>] = Raise("KeyError")

(***************************************************************************)
(* C15: get_transformation(end, start) raises an error and returns no      *)
(* matrix whenever the way up from end, from link to parent as parent_map  *)
(* has it, comes to a link without a parent before it comes to start, end  *)
(* being below start by no joint; also when that link has no children      *)
(* either.                                                                 *)
(***************************************************************************)
\* where the way up from link ends: at start, at a link without a parent
\* ("top"), or nowhere ("cycle")
RECURSIVE WalkUp(_, _, _)
WalkUp(link, start, seen) ==
    IF link = start THEN "start"
    ELSE IF ~DictHas(parent_map, link) THEN "top"
    ELSE IF link \in seen THEN "cycle"
    ELSE WalkUp(DictGet(parent_map, link)[2], start, seen \cup {link})

\* the links reached from those of S by going down at most k joints of the
\* joints list
RECURSIVE Below(_, _)
Below(S, k) ==
    IF k = 0 THEN S
    ELSE Below(S \cup {j.child : j \in {x \in JointSet : x.parent \in S}}, k - 1)

\* end is not below start: neither by parent_map nor by any joint attached
EndsAtTop(end, start) ==
    /\ WalkUp(end, start, {}) = "top"
    /\ end \notin Below({start}, Cardinality(LinkNames))

C15_RaisesWhere(cond) ==
    (cond /\ last.op = "get_transformation") =>
        \A end \in LinkNames, start \in LinkNames :
            EndsAtTop(end, start) =>
                last.ret[<<end, start>>].err \in {"Exception", "AssertionError"}

C15_TransformationRaises == C15_RaisesWhere(TRUE)

\* C15 where no two joints of the robot share a name
C15_TransformationRaisesUniqueJointNames == C15_RaisesWhere(UniqueNames(joints))

\* get_transformation has failed at a link with neither parent nor children,
\* and at one with children
C15_Witness ==
    /\ last.op = "get_transformation"
    /\ UniqueNames(joints)
    /\ \E end \in LinkNames, start \in LinkNames :
          /\ EndsAtTop(end, start)
          /\ last.ret[<<end, start>>] = Raise("AssertionError")
    /\ \E end \in LinkNames, start \in LinkNames :
          /\ EndsAtTop(end, start)
          /\ DictHas(parent_map, end)
          /\ last.ret[<<end, start>>] = Raise("Exception")

(***************************************************************************)
(* C16: in a tree-shaped robot get_leaves(start) returns, for every link   *)
(* start, the root and the leaves included, a pair (parents, children) of  *)
(* disjoint sets whose union is start together with all its descendants.   *)
(***************************************************************************)
C16_Partition(start) ==
    /\ last.ret[start].err = "none"
    /\ last.ret[start].val # NoObject
    /\ last.ret[start].val.parents \cap last.ret[start].val.children = {}
    /\ last.ret[start].val.parents \cup last.ret[start].val.children
           = Below({start}, Cardinality(LinkNames))

C16_LeavesPartition ==
    (TreeShaped /\ last.op = "get_leaves") =>
        \A start \in LinkNameSet : C16_Partition(start)

\* C16 for the links that have a parent and children, the children leaves
C16_LeavesPartitionOneLevel ==
    (TreeShaped /\ last.op = "get_leaves") =>
        \A start \in LinkNameSet :
            (/\ DictHas(parent_map, start)
             /\ DictHas(child_map, start)
             /\ \A j \in JointSet : j.parent = start => ~DictHas(child_map, j.child)) =>
                C16_Partition(start)

\* get_leaves has been called on a chain of three links
C16_Witness ==
    /\ TreeShaped
    /\ last.op = "get_leaves"
    /\ \E start \in LinkNameSet :
          /\ Depth(start) = 1
          /\ DictHas(child_map, start)
          /\ C16_Partition(start)
    /\ last.ret[TreeRoot] = Ok(NoObject)

(***************************************************************************)
(* C17: in a tree-shaped robot with at least one joint get_link_level(L)   *)
(* is the depth of L: 0 for the root, else the number of joints between    *)
(* the root and L, which is the number of links of get_chain(root, L)      *)
(* less one; get_joint_level(j) is get_link_level of the parent of j.      *)
(***************************************************************************)
\* the number of links of get_chain(root, L, joints=False)
ChainLinks(L) == Len(GetChain(TreeRoot, L, FALSE, TRUE, TRUE).val)

C17_LevelHolds(tree) ==
    (tree /\ joints # <<>>) =>
        /\ last.op = "get_link_level" =>
              /\ last.ret[TreeRoot] = Ok(0)
              /\ \A L \in LinkNameSet :
                    /\ last.ret[L] = Ok(Depth(L))
                    /\ GetChain(TreeRoot, L, FALSE, TRUE, TRUE).err = "none"
                    /\ last.ret[L] = Ok(ChainLinks(L) - 1)
        /\ last.op = "get_joint_level" =>
              \A j \in JointSet : last.ret[j.name] = GetLinkLevel(j.parent)

C17_Levels == C17_LevelHolds(TreeShaped)

\* C17 where no two joints of the tree share a name
C17_LevelsUniqueJointNames == C17_LevelHolds(TreeShaped /\ UniqueNames(joints))

\* get_link_level has returned 2 for a link two joints below the root
C17_Witness ==
    /\ TreeShaped
    /\ UniqueNames(joints)
    /\ last.op = "get_link_level"
    /\ \E L \in LinkNameSet : Depth(L) = 2 /\ last.ret[L] = Ok(2)

(***************************************************************************)
(* C18: in every state reached by add_aggregate joint calls parent_map and *)
(* child_map describe the same edges: (j, c) is an entry of child_map[p]   *)
(* if and only if parent_map[c] = (j, p).                                  *)
(***************************************************************************)
InChildMap(p, j, c) == InList(ChildEntries(p), <<j, c>>)

InParentMap(p, j, c) == DictHas(parent_map, c) /\ DictGet(parent_map, c) = <<j, p>>

C18_SameEdges ==
    \A p \in LinkNames, c \in LinkNames, j \in JointNames :
        InChildMap(p, j, c) <=> InParentMap(p, j, c)

\* the half of C18 that holds: every entry of parent_map is in child_map
C18_ParentMapInChildMap ==
    \A p \in LinkNames, c \in LinkNames, j \in JointNames :
        InParentMap(p, j, c) => InChildMap(p, j, c)

\* a link has been given a second parent
C18_Witness ==
    /\ Len(joints) = 2
    /\ joints[1].child = joints[2].child
    /\ joints[1].parent # joints[2].parent
    /\ InChildMap(joints[1].parent, joints[1].name, joints[1].child)
    /\ InParentMap(joints[2].parent, joints[2].name, joints[2].child)

(***************************************************************************)
(* C19: in every state reached by add_aggregate link and joint calls the   *)
(* upward walks get_chain(root, tip), get_transformation(end, start) and   *)
(* get_link_level(link) terminate, returning or raising, for all link      *)
(* names as arguments.                                                     *)
(***************************************************************************)
Walks == {"get_chain", "get_transformation", "get_link_level"}

C19_TerminatesWhere(cond) ==
    (cond /\ last.op \in Walks) =>
        \A a \in DOMAIN last.ret : last.ret[a].err # "loops"

C19_WalksTerminate == C19_TerminatesWhere(TRUE)

\* parent_map leads from no link back to it
NoCycle == \A n \in LinkNames : WalkUp(n, None, {}) # "cycle"

\* C19 where parent_map has no cycle and no two joints share a name
C19_WalksTerminateNoCycle == C19_TerminatesWhere(NoCycle /\ UniqueNames(joints))

\* a walk was made on two joints that form a cycle, and a call of it returned
C19_Witness ==
    /\ last.op \in Walks
    /\ UniqueNames(joints)
    /\ ~NoCycle
    /\ \E a \in DOMAIN last.ret : last.ret[a].err = "none"

(***************************************************************************)
(* C20: for a Motor bound to a joint whose limit is absent at first or has *)
(* lower <= upper, after any assignments of numbers to minValue and        *)
(* maxValue the limit, once there, has lower <= upper; an assignment of a  *)
(* maxValue below minValue, or of a minValue above maxValue, leaves the    *)
(* limit as it was; and the first accepted assignment on a joint without a *)
(* limit creates one whose other fields are 0.                             *)
(***************************************************************************)
C20_Ordered == limit # NoObject => limit.lower <= limit.upper

C20_AssignStep ==
    /\ (last'.op = "maxValue" /\ last'.args[1] < MinValue) => limit' = limit
    /\ (last'.op = "minValue" /\ last'.args[1] > MaxValue) => limit' = limit
    /\ (last'.op = "maxValue" /\ limit = NoObject /\ last'.args[1] >= 0) =>
           limit' = [effort |-> 0, velocity |-> 0, lower |-> 0, upper |-> last'.args[1]]
    /\ (last'.op = "minValue" /\ limit = NoObject /\ last'.args[1] <= 0) =>
           limit' = [effort |-> 0, velocity |-> 0, lower |-> last'.args[1], upper |-> 0]

C20_MotorLimitOrdered == [](C20_Ordered) /\ [][C20_AssignStep]_vars

\* a maxValue below minValue was refused, on a limit as an assignment to
\* minValue creates it
C20_Witness ==
    /\ last.op = "maxValue"
    /\ limit = [effort |-> 0, velocity |-> 0, lower |-> -1, upper |-> 0]
    /\ last.args[1] < limit.lower
====
